---- MODULE Spec2Model ----
(***************************************************************************)
(* Model of LegalDoc_AI.py: a Streamlit chat front end over a FAISS index  *)
(* and a hosted text-generation endpoint.  Every browser session runs      *)
(* main() once per script run; st.session_state is per session and the     *)
(* st.cache_resource memo of get_vectorstore is shared by the process.     *)
(*                                                                         *)
(* A text is a sequence of tokens (strings); string concatenation and      *)
(* f-string interpolation are sequence concatenation.                      *)
(***************************************************************************)
EXTENDS Integers, Sequences, FiniteSets, TLC

VARIABLES
    session_state,   \* per session: st.session_state, keys "messages", "vectorstore"
    cache_resource,  \* process-wide st.cache_resource memo of get_vectorstore: <<>> or <<value>>
    pc,              \* per session: position of the running script in main()
    frame,           \* per session: locals of main() (prompt, vectorstore, qa_chain, response)
    errorDisplays,   \* per session: the st.error elements of the current script run
    fault,           \* the external collaborator that currently fails, or "none"
    loads,           \* number of indexes FAISS.load_local has constructed in this process
    turns,           \* number of script runs that submitted a prompt
    trace,           \* per session: what the current/last script run did
    outcomes         \* per session: how each finished turn ended, in order

vars == <<session_state, cache_resource, pc, frame, errorDisplays, fault, loads,
          turns, trace, outcomes>>

----------------------------------------------------------------------------
(* Bounds *)

\* Total number of prompts submitted over all sessions.
MaxTurns == 2

Sessions == {"s1", "s2"}

----------------------------------------------------------------------------
(* Program constants *)

DB_FAISS_PATH == "vectorstore/db_faiss"

\* search_kwargs={'k': 3}
K == 3

\* The return value of a function that returned nothing usable.
None == [id |-> 0, index |-> <<>>]

HEADER == "### LegalDoc_AI Response\n\n"
\* (the book emoji of the source text is left out of the token)
SOURCES_HEADER == "\n\n---\n\n### Source Documents:\n"
STORE_FAILED == "Failed to load the vector store."

----------------------------------------------------------------------------
(* Texts *)

Whitespace == {" ", "\n", "\t"}

\* str.strip(): drop leading and trailing whitespace.
RECURSIVE LStrip(_)
LStrip(t) == IF t # <<>> /\ Head(t) \in Whitespace THEN LStrip(Tail(t)) ELSE t

RECURSIVE RStrip(_)
RStrip(t) ==
    IF t # <<>> /\ t[Len(t)] \in Whitespace THEN RStrip(SubSeq(t, 1, Len(t) - 1)) ELSE t

Strip(t) == RStrip(LStrip(t))

Digits == <<"0", "1", "2", "3", "4", "5", "6", "7", "8", "9">>

\* str(n) for the small naturals the model formats.
Str(n) == Digits[n + 1]

TruthyAlways(prompt) == TRUE

\* Python truthiness of a string: the empty string (and None, which chat_input
\* returns when nothing was submitted) is falsy.
Truthy(prompt) == prompt # <<>>

----------------------------------------------------------------------------
(* The persisted index and retrieval *)

\* Chunks as the offline ingestion stored them: page_content, metadata and the
\* embedding the index holds for the chunk.
Chunk1 == [page_content |-> <<" ", "Section 379. Punishment for theft.", "\n">>,
           metadata |-> [source |-> "ipc.pdf", page |-> 3], vec |-> 1]
Chunk2 == [page_content |-> <<"Section 378. Theft.", " ", "Whoever...">>,
           metadata |-> [source |-> "ipc.pdf"], vec |-> 2]
Chunk3 == [page_content |-> <<"\n", "Section 66 IT Act.">>,
           metadata |-> [page |-> 0], vec |-> 6]
Chunk4 == [page_content |-> <<"Section 420. Cheating.">>,
           metadata |-> [source |-> "crpc.pdf", page |-> 7], vec |-> 5]

\* What vectorstore/db_faiss may hold when it is loaded.
Corpora == { <<Chunk1, Chunk2, Chunk3, Chunk4>>, <<Chunk3, Chunk1>> }

Prompts == { <<>>, <<"What is the punishment for theft?">>, <<"Is AI liable?">> }

\* Embedding of a query by the model the index was built with.
Embed(q) == IF q = <<"Is AI liable?">> THEN 6 ELSE 1

Dist(a, b) == IF a >= b THEN a - b ELSE b - a

\* Position of the first chunk of docs nearest to qv.
Nearest(docs, qv) ==
    CHOOSE i \in 1..Len(docs) :
        \A j \in 1..Len(docs) :
            \/ Dist(docs[i].vec, qv) < Dist(docs[j].vec, qv)
            \/ Dist(docs[i].vec, qv) = Dist(docs[j].vec, qv) /\ i <= j

Remove(docs, i) == SubSeq(docs, 1, i - 1) \o SubSeq(docs, i + 1, Len(docs))

\* similarity_search(query, k): the k nearest chunks, by ascending distance.
RECURSIVE Search(_, _, _)
Search(docs, qv, k) ==
    IF k = 0 \/ docs = <<>> THEN <<>>
    ELSE LET i == Nearest(docs, qv)
         IN <<docs[i]>> \o Search(Remove(docs, i), qv, k - 1)

\* vectorstore.as_retriever(search_kwargs={'k': 3}) applied to the query.
Retriever(vectorstore, query) == Search(vectorstore.index, Embed(query), K)

----------------------------------------------------------------------------
(* Response formatting *)

MetaSource(doc) ==
    IF "source" \in DOMAIN doc.metadata THEN doc.metadata.source ELSE "Unknown"

MetaPage(doc) ==
    IF "page" \in DOMAIN doc.metadata THEN Str(doc.metadata.page) ELSE "N/A"

\* One pass of the loop body for the i-th source document.  The markdown
\* code quote around the source is written ' here.
CitationEntry(i, doc) ==
    <<"**", Str(i), ". Source:** '", MetaSource(doc), "', **Page:** ", MetaPage(doc), "\n\n">>
    \o Strip(doc.page_content) \o <<"\n\n">>

RECURSIVE Citations(_, _)
Citations(source_documents, start) ==
    IF source_documents = <<>> THEN <<>>
    ELSE CitationEntry(start, Head(source_documents))
         \o Citations(Tail(source_documents), start + 1)

FormatResponseFromZero(result, source_documents) ==
    <<HEADER>> \o result \o <<SOURCES_HEADER>> \o Citations(source_documents, 0)

FormatResponse(result, source_documents) ==
    <<HEADER>> \o result \o <<SOURCES_HEADER>> \o Citations(source_documents, 1)

----------------------------------------------------------------------------
(* Failures of the external collaborators *)

Faults == {"store", "endpoint", "retrieval", "generation"}

\* str(e) of the exception each collaborator raises.
Details(kind) ==
    CASE kind = "store" ->
            {"could not open vectorstore/db_faiss/index.faiss for reading",
             "invalid load key, '\\x00'."}
      [] kind = "endpoint" -> {"You must provide an api_key to work with the API"}
      [] kind = "retrieval" -> {"assert d == self.d"}
      [] kind = "generation" -> {"401 Client Error: Unauthorized for url"}

RawDetails == UNION { Details(k) : k \in Faults }

\* Text the generation endpoint may answer with.
Results == { <<"Theft is punishable under Section 379 IPC.">> }

----------------------------------------------------------------------------
(* State *)

EmptyFrame == [vectorstore |-> None, source_documents |-> <<>>, result |-> <<>>]

EmptyTrace == [ran |-> FALSE, done |-> FALSE, prompt |-> <<>>, before |-> <<>>,
               faults |-> <<>>, nRetrieve |-> 0, nGenerate |-> 0, retrieved |-> <<>>]

\* Conversation State of a session: st.session_state.messages, empty before
\* the first script run has created the key.
Messages(s) ==
    IF "messages" \in DOMAIN session_state[s] THEN session_state[s].messages ELSE <<>>

\* st.session_state.<key> = value
SetKey(state, key, value) ==
    [k \in DOMAIN state \cup {key} |-> IF k = key THEN value ELSE state[k]]

ReplaceMessages(messages, role, content) == <<[role |-> role, content |-> content]>>

AppendAsAssistant(messages, role, content) ==
    Append(messages, [role |-> "assistant", content |-> content])

\* st.session_state.messages.append({'role': role, 'content': content})
AppendMessage(messages, role, content) ==
    Append(messages, [role |-> role, content |-> content])

Init ==
    /\ session_state = [s \in Sessions |-> <<>>]
    /\ cache_resource = <<>>
    /\ pc = [s \in Sessions |-> "idle"]
    /\ frame = [s \in Sessions |-> EmptyFrame]
    /\ errorDisplays = [s \in Sessions |-> <<>>]
    /\ fault \in Faults \cup {"none"}
    /\ loads = 0
    /\ turns = 0
    /\ trace = [s \in Sessions |-> EmptyTrace]
    /\ outcomes = [s \in Sessions |-> <<>>]

----------------------------------------------------------------------------
(* main(): start of a script run *)

\* A script run whose chat_input returned nothing: the messages are rendered
\* and the script ends.
RunEmpty(s, prompt) ==
    /\ pc[s] = "idle"
    /\ ~Truthy(prompt)
    /\ session_state' = [session_state EXCEPT ![s] = SetKey(@, "messages", Messages(s))]
    /\ errorDisplays' = [errorDisplays EXCEPT ![s] = <<>>]
    /\ trace' = [trace EXCEPT ![s] =
                    [EmptyTrace EXCEPT !.ran = TRUE, !.done = TRUE, !.prompt = prompt,
                                       !.before = Messages(s)]]
    /\ UNCHANGED <<cache_resource, pc, frame, fault, loads, turns, outcomes>>

\* A script run with a submitted prompt: the user message is rendered and
\* recorded, and the script goes on to the try block.
RunPrompt(s, prompt) ==
    /\ pc[s] = "idle"
    /\ Truthy(prompt)
    /\ turns < MaxTurns
    /\ turns' = turns + 1
    /\ session_state' = [session_state EXCEPT ![s] =
            SetKey(@, "messages", AppendMessage(Messages(s), "user", prompt))]
    /\ errorDisplays' = [errorDisplays EXCEPT ![s] = <<>>]
    /\ trace' = [trace EXCEPT ![s] =
                    [EmptyTrace EXCEPT !.ran = TRUE, !.prompt = prompt,
                                       !.before = Messages(s)]]
    /\ pc' = [pc EXCEPT ![s] = "get_vectorstore"]
    /\ UNCHANGED <<cache_resource, frame, fault, loads, outcomes>>

----------------------------------------------------------------------------
(* except Exception as e: st.error(f"Error: {str(e)}") *)

ErrorText(e) == <<"Error: ", e>>

\* The handler that also records an assistant message.
ExceptHandlerAnswers(s, e) ==
    /\ errorDisplays' = [errorDisplays EXCEPT ![s] = Append(@, ErrorText(e))]
    /\ session_state' = [session_state EXCEPT ![s] =
            SetKey(@, "messages", AppendMessage(Messages(s), "assistant", ErrorText(e)))]
    /\ pc' = [pc EXCEPT ![s] = "idle"]
    /\ frame' = [frame EXCEPT ![s] = EmptyFrame]

\* The handler that also takes the turn's user message back.
ExceptHandlerRollsBack(s, e) ==
    /\ errorDisplays' = [errorDisplays EXCEPT ![s] = Append(@, ErrorText(e))]
    /\ session_state' = [session_state EXCEPT ![s] =
            SetKey(@, "messages", SubSeq(Messages(s), 1, Len(Messages(s)) - 1))]
    /\ pc' = [pc EXCEPT ![s] = "idle"]
    /\ frame' = [frame EXCEPT ![s] = EmptyFrame]

ExceptHandler(s, e) ==
    /\ errorDisplays' = [errorDisplays EXCEPT ![s] = Append(@, ErrorText(e))]
    /\ session_state' = session_state
    /\ pc' = [pc EXCEPT ![s] = "idle"]
    /\ frame' = [frame EXCEPT ![s] = EmptyFrame]

\* An exception of the given kind reaches the handler and the script ends.
Raise(s, kind, e, tr) ==
    /\ e \in Details(kind)
    /\ ExceptHandler(s, e)
    /\ trace' = [trace EXCEPT ![s] =
                    [tr EXCEPT !.faults = Append(@, kind), !.done = TRUE]]
    /\ outcomes' = [outcomes EXCEPT ![s] = Append(@, kind)]

----------------------------------------------------------------------------
(* get_vectorstore() and the None check of main() *)

MemoizeNothing(value) == <<>>

\* @st.cache_resource: the value a call returned is kept for the process.
Memoize(value) == <<value>>

\* Lines 68-71: the value get_vectorstore() returned reaches main().
GotVectorstore(s, value, tr) ==
    IF value = None
    THEN /\ errorDisplays' = [errorDisplays EXCEPT ![s] = Append(@, <<STORE_FAILED>>)]
         /\ pc' = [pc EXCEPT ![s] = "idle"]
         /\ frame' = [frame EXCEPT ![s] = EmptyFrame]
         /\ trace' = [trace EXCEPT ![s] = [tr EXCEPT !.done = TRUE]]
         /\ outcomes' = [outcomes EXCEPT ![s] = Append(@, "none")]
    ELSE /\ frame' = [frame EXCEPT ![s].vectorstore = value]
         /\ pc' = [pc EXCEPT ![s] = "build_chain"]
         /\ trace' = [trace EXCEPT ![s] = tr]
         /\ UNCHANGED <<errorDisplays, outcomes>>

\* get_vectorstore() returns: from the memo, from the session's key, or by
\* loading the index from DB_FAISS_PATH.
GetVectorstore(s) ==
    /\ pc[s] = "get_vectorstore"
    /\ IF cache_resource # <<>>
       THEN /\ GotVectorstore(s, cache_resource[1], trace[s])
            /\ UNCHANGED <<cache_resource, session_state, loads>>
       ELSE IF "vectorstore" \in DOMAIN session_state[s]
       THEN /\ GotVectorstore(s, session_state[s].vectorstore, trace[s])
            /\ cache_resource' = Memoize(session_state[s].vectorstore)
            /\ UNCHANGED <<session_state, loads>>
       ELSE /\ fault # "store"
            /\ \E index \in Corpora :
                 LET value == [id |-> loads + 1, index |-> index]
                 IN /\ session_state' = [session_state EXCEPT ![s] =
                                            SetKey(@, "vectorstore", value)]
                    /\ cache_resource' = Memoize(value)
                    /\ GotVectorstore(s, value, trace[s])
            /\ loads' = loads + 1
    /\ UNCHANGED <<fault, turns>>

\* get_vectorstore() that catches the failed load and returns None.
GetVectorstoreSwallows(s, e) ==
    /\ pc[s] = "get_vectorstore"
    /\ cache_resource = <<>>
    /\ "vectorstore" \notin DOMAIN session_state[s]
    /\ fault = "store"
    /\ e \in Details("store")
    /\ session_state' = [session_state EXCEPT ![s] = SetKey(@, "vectorstore", None)]
    /\ cache_resource' = Memoize(None)
    /\ GotVectorstore(s, None, [trace[s] EXCEPT !.faults = Append(@, "store")])
    /\ UNCHANGED <<fault, turns, loads>>

\* FAISS.load_local raises: nothing is assigned, nothing is memoized.
GetVectorstoreRaises(s, e) ==
    /\ pc[s] = "get_vectorstore"
    /\ cache_resource = <<>>
    /\ "vectorstore" \notin DOMAIN session_state[s]
    /\ fault = "store"
    /\ Raise(s, "store", e, trace[s])
    /\ UNCHANGED <<cache_resource, fault, turns, loads>>

----------------------------------------------------------------------------
(* RetrievalQA.from_chain_type(...) and qa_chain.invoke(...) *)

\* load_llm, as_retriever and set_custom_prompt build the chain.
BuildChain(s) ==
    /\ pc[s] = "build_chain"
    /\ fault # "endpoint"
    /\ pc' = [pc EXCEPT ![s] = "retrieve"]
    /\ UNCHANGED <<session_state, cache_resource, frame, errorDisplays, fault, loads,
                   turns, trace, outcomes>>

BuildChainRaises(s, e) ==
    /\ pc[s] = "build_chain"
    /\ fault = "endpoint"
    /\ Raise(s, "endpoint", e, trace[s])
    /\ UNCHANGED <<cache_resource, fault, turns, loads>>

\* The chain asks the retriever for the chunks nearest to the query.
Retrieve(s) ==
    /\ pc[s] = "retrieve"
    /\ fault # "retrieval"
    /\ LET docs == Retriever(frame[s].vectorstore, trace[s].prompt)
       IN /\ frame' = [frame EXCEPT ![s].source_documents = docs]
          /\ trace' = [trace EXCEPT ![s].nRetrieve = @ + 1, ![s].retrieved = docs]
    /\ pc' = [pc EXCEPT ![s] = "generate"]
    /\ UNCHANGED <<session_state, cache_resource, errorDisplays, fault, loads, turns,
                   outcomes>>

RetrieveRaises(s, e) ==
    /\ pc[s] = "retrieve"
    /\ fault = "retrieval"
    /\ Raise(s, "retrieval", e, [trace[s] EXCEPT !.nRetrieve = @ + 1])
    /\ UNCHANGED <<cache_resource, fault, turns, loads>>

\* The chain sends the filled prompt to the endpoint and gets the answer.
Generate(s, result) ==
    /\ pc[s] = "generate"
    /\ fault # "generation"
    /\ frame' = [frame EXCEPT ![s].result = result]
    /\ trace' = [trace EXCEPT ![s].nGenerate = @ + 1]
    /\ pc' = [pc EXCEPT ![s] = "format"]
    /\ UNCHANGED <<session_state, cache_resource, errorDisplays, fault, loads, turns,
                   outcomes>>

\* A failed endpoint call that is sent again.
GenerateRetries(s, e) ==
    /\ pc[s] = "generate"
    /\ fault = "generation"
    /\ e \in Details("generation")
    /\ trace[s].nGenerate < 2
    /\ trace' = [trace EXCEPT ![s].nGenerate = @ + 1, ![s].faults = Append(@, "generation")]
    /\ UNCHANGED <<session_state, cache_resource, pc, frame, errorDisplays, fault,
                   loads, turns, outcomes>>

GenerateRaises(s, e) ==
    /\ pc[s] = "generate"
    /\ fault = "generation"
    /\ Raise(s, "generation", e, [trace[s] EXCEPT !.nGenerate = @ + 1])
    /\ UNCHANGED <<cache_resource, fault, turns, loads>>

----------------------------------------------------------------------------
(* Lines 86-92: format, render and record the assistant message *)

Record(s) ==
    /\ pc[s] = "format"
    /\ LET formatted_response == FormatResponse(frame[s].result, frame[s].source_documents)
       IN session_state' = [session_state EXCEPT ![s] =
            SetKey(@, "messages", AppendMessage(Messages(s), "assistant", formatted_response))]
    /\ pc' = [pc EXCEPT ![s] = "idle"]
    /\ frame' = [frame EXCEPT ![s] = EmptyFrame]
    /\ trace' = [trace EXCEPT ![s].done = TRUE]
    /\ outcomes' = [outcomes EXCEPT ![s] = Append(@, "ok")]
    /\ UNCHANGED <<cache_resource, errorDisplays, fault, loads, turns>>

----------------------------------------------------------------------------
(* The environment: an external collaborator breaks or is repaired *)

SetFault(f) ==
    /\ f # fault
    /\ fault' = f
    /\ UNCHANGED <<session_state, cache_resource, pc, frame, errorDisplays, loads,
                   turns, trace, outcomes>>

Next ==
    \/ \E s \in Sessions, prompt \in Prompts : RunEmpty(s, prompt)
    \/ \E s \in Sessions, prompt \in Prompts : RunPrompt(s, prompt)
    \/ \E s \in Sessions : GetVectorstore(s)
    \/ \E s \in Sessions, e \in RawDetails : GetVectorstoreRaises(s, e)
    \/ \E s \in Sessions : BuildChain(s)
    \/ \E s \in Sessions, e \in RawDetails : BuildChainRaises(s, e)
    \/ \E s \in Sessions : Retrieve(s)
    \/ \E s \in Sessions, e \in RawDetails : RetrieveRaises(s, e)
    \/ \E s \in Sessions, result \in Results : Generate(s, result)
    \/ \E s \in Sessions, e \in RawDetails : GenerateRaises(s, e)
    \/ \E s \in Sessions : Record(s)
    \/ \E f \in Faults \cup {"none"} : SetFault(f)

Spec == Init /\ [][Next]_vars

----------------------------------------------------------------------------
(* Vocabulary of the properties *)

IsPrefix(a, b) == Len(a) <= Len(b) /\ SubSeq(b, 1, Len(a)) = a

Last(seq) == seq[Len(seq)]

Roles(messages) == [i \in 1..Len(messages) |-> messages[i].role]

Count(messages, role) == Cardinality({i \in 1..Len(messages) : messages[i].role = role})

UserMessage(prompt) == [role |-> "user", content |-> prompt]

\* A script run of session s that was given a prompt and has ended.
TurnDone(s) == trace[s].ran /\ trace[s].done /\ trace[s].prompt # <<>>

Failed(s, kind) == \E i \in 1..Len(trace[s].faults) : trace[s].faults[i] = kind

\* The roles a sequence of finished turns leaves behind.
RECURSIVE RolesOf(_)
RolesOf(ends) ==
    IF ends = <<>> THEN <<>>
    ELSE (IF Head(ends) = "ok" THEN <<"user", "assistant">> ELSE <<"user">>)
         \o RolesOf(Tail(ends))

\* The citation entries read back from a formatted text: every entry is
\* found by its ". Source:" label.
Marks(text) ==
    SelectSeq([i \in 1..Len(text) |-> i], LAMBDA i : text[i] = ". Source:** '")

ParsedEntries(text) ==
    [n \in 1..Len(Marks(text)) |->
        LET m == Marks(text)[n]
        IN [rank |-> text[m - 1], source |-> text[m + 1], page |-> text[m + 3],
            first |-> text[m + 5]]]

FirstWord(content) ==
    LET words == SelectSeq(content, LAMBDA w : w \notin Whitespace) IN words[1]

ExpectedEntries(docs) ==
    [n \in 1..Len(docs) |->
        [rank |-> <<"1", "2", "3">>[n],
         source |-> IF "source" \in DOMAIN docs[n].metadata
                    THEN docs[n].metadata.source ELSE "Unknown",
         page |-> IF "page" \in DOMAIN docs[n].metadata
                  THEN Digits[docs[n].metadata.page + 1] ELSE "N/A",
         first |-> FirstWord(docs[n].page_content)]]

----------------------------------------------------------------------------
(* Properties *)

\* C1: a turn with a non-empty input whose generation call failed shows
\* exactly one error, appends no assistant message and keeps the user message:
\* the conversation is the one before the turn plus that user message.
C1_GenerationFailureKeepsUserOnly ==
    \A s \in Sessions :
        (TurnDone(s) /\ Failed(s, "generation")) =>
            /\ Len(errorDisplays[s]) = 1
            /\ Messages(s) = Append(trace[s].before, UserMessage(trace[s].prompt))

C1_Witness ==
    \E s \in Sessions :
        /\ TurnDone(s) /\ Failed(s, "generation") /\ trace[s].nGenerate = 1
        /\ trace[s].before # <<>>

\* C2: a turn in which the index failed to load shows exactly one error,
\* appends no assistant message, and stops: nothing is retrieved or generated.
C2_StoreFailureStopsTurn ==
    \A s \in Sessions :
        (trace[s].ran /\ Failed(s, "store")) =>
            /\ pc[s] = "idle" /\ trace[s].done
            /\ Len(errorDisplays[s]) = 1
            /\ Count(Messages(s), "assistant") = Count(trace[s].before, "assistant")
            /\ Messages(s) = Append(trace[s].before, UserMessage(trace[s].prompt))
            /\ trace[s].nRetrieve = 0 /\ trace[s].nGenerate = 0

C2_Witness ==
    \E s \in Sessions :
        /\ TurnDone(s) /\ trace[s].faults = <<"store">>
        /\ outcomes[s] = <<"store">> /\ loads = 0

\* C3: the text of every displayed error is generic: it contains no raw
\* detail of the failure that caused it.
C3_ErrorTextIsGeneric ==
    \A s \in Sessions :
        \A i \in 1..Len(errorDisplays[s]) :
            \A j \in 1..Len(errorDisplays[s][i]) :
                errorDisplays[s][i][j] \notin RawDetails

\* C4: the conversation is append-only: over every step the messages before
\* are a prefix of the messages after.
C4_AppendOnly ==
    [][\A s \in Sessions : IsPrefix(Messages(s), Messages(s)')]_vars

C4_Witness ==
    \E s \in Sessions :
        /\ Roles(Messages(s)) = <<"user", "user", "assistant">>
        /\ pc[s] = "idle"

\* C5: the index is loaded at most once per process: every handle a turn
\* holds, and every handle a session keeps, is the one memoized instance.
C5_LoadedAtMostOnce ==
    /\ loads <= 1
    /\ \A s \in Sessions :
        /\ frame[s].vectorstore # None =>
              /\ cache_resource = <<frame[s].vectorstore>>
              /\ frame[s].vectorstore.id = 1
        /\ "vectorstore" \in DOMAIN session_state[s] =>
              cache_resource = <<session_state[s].vectorstore>>

C5_Witness ==
    \E s, t \in Sessions :
        /\ s # t /\ loads = 1
        /\ frame[s].vectorstore # None /\ frame[t].vectorstore # None
        /\ "vectorstore" \in DOMAIN session_state[s]
        /\ "vectorstore" \notin DOMAIN session_state[t]

\* C6: a script run with an empty input is no turn: the conversation is
\* unchanged, nothing is retrieved or generated, no error is shown; only a
\* non-empty input gets past the start of the script.
C6_EmptyInputNoTurn ==
    \A s \in Sessions :
        /\ (trace[s].ran /\ trace[s].prompt = <<>>) =>
              /\ pc[s] = "idle"
              /\ Messages(s) = trace[s].before
              /\ trace[s].nRetrieve = 0 /\ trace[s].nGenerate = 0
              /\ errorDisplays[s] = <<>>
        /\ pc[s] # "idle" => trace[s].prompt # <<>>

C6_Witness ==
    \E s \in Sessions :
        /\ trace[s].ran /\ trace[s].prompt = <<>>
        /\ Len(Messages(s)) >= 2 /\ Last(outcomes[s]) # "ok"

\* C7: the assistant text of a successful turn lists one citation entry per
\* retrieved chunk, at most 3, ranked 1, 2, ... in the order retrieval
\* returned the chunks.
C7_CitationsInRetrievalOrder ==
    \A s \in Sessions :
        (TurnDone(s) /\ trace[s].faults = <<>>) =>
            /\ Len(trace[s].retrieved) <= 3
            /\ Last(Messages(s)).role = "assistant"
            /\ ParsedEntries(Last(Messages(s)).content) = ExpectedEntries(trace[s].retrieved)

C7_Witness ==
    \E s \in Sessions :
        /\ TurnDone(s) /\ trace[s].faults = <<>>
        /\ Len(cache_resource[1].index) = 4
        /\ Len(ParsedEntries(Last(Messages(s)).content)) = 3
        /\ trace[s].retrieved[1] = Chunk3

\* C8: no retry within a turn: the endpoint is called at most once, and only
\* after this turn's retrieval succeeded; a finished turn appended exactly one
\* assistant message, or failed and appended none.
C8_NoRetry ==
    \A s \in Sessions :
        /\ trace[s].nGenerate <= 1 /\ trace[s].nRetrieve <= 1
        /\ trace[s].nGenerate >= 1 =>
              trace[s].nRetrieve = 1 /\ ~Failed(s, "retrieval")
        /\ TurnDone(s) =>
              LET added == SubSeq(Messages(s), Len(trace[s].before) + 1, Len(Messages(s)))
              IN /\ IsPrefix(trace[s].before, Messages(s))
                 /\ IF trace[s].faults = <<>>
                    THEN Roles(added) = <<"user", "assistant">> /\ errorDisplays[s] = <<>>
                    ELSE Roles(added) = <<"user">> /\ Len(errorDisplays[s]) = 1

C8_Witness ==
    \E s \in Sessions :
        /\ TurnDone(s) /\ trace[s].nGenerate = 1 /\ trace[s].faults = <<>>
        /\ outcomes[s] = <<"generation", "ok">>

\* C9: every finished turn leaves the session idle with no locals kept, a
\* failed load is never memoized or kept as the handle, a turn fails only
\* when one of its own external calls failed, and an idle session accepts the
\* next prompt.
C9_FreshAfterEveryTurn ==
    /\ cache_resource # <<>> => cache_resource[1] # None /\ loads >= 1
    /\ \A s \in Sessions :
        /\ "vectorstore" \in DOMAIN session_state[s] => session_state[s].vectorstore # None
        /\ trace[s].done => pc[s] = "idle"
        /\ pc[s] = "idle" => frame[s] = EmptyFrame
        /\ (TurnDone(s) /\ fault = "none") =>
              \A p \in Prompts \ {<<>>} : turns < MaxTurns => ENABLED RunPrompt(s, p)
        /\ (TurnDone(s) /\ Last(outcomes[s]) # "ok") => trace[s].faults # <<>>

C9_Witness ==
    \E s \in Sessions :
        /\ outcomes[s] = <<"store", "ok">> /\ pc[s] = "idle"

\* C10: the first message is a user message, every assistant message directly
\* follows a user message, assistant messages never outnumber user messages,
\* and two user messages are adjacent exactly where a turn failed.
C10_RoleStructure ==
    \A s \in Sessions :
        LET messages == Messages(s) IN
        /\ messages # <<>> => messages[1].role = "user"
        /\ \A i \in 1..Len(messages) :
              messages[i].role = "assistant" => i > 1 /\ messages[i - 1].role = "user"
        /\ Count(messages, "assistant") <= Count(messages, "user")
        /\ Roles(messages) =
              RolesOf(outcomes[s]) \o (IF pc[s] = "idle" THEN <<>> ELSE <<"user">>)

C10_Witness ==
    \E s \in Sessions :
        /\ Roles(Messages(s)) = <<"user", "user">>
        /\ outcomes[s] = <<"endpoint">> /\ pc[s] = "generate"

====
